---- MODULE Spec2Model ----
(***************************************************************************)
(* Model of scripts/set_version.py: resolve a version, write the VERSION   *)
(* marker, then update library.json, library.properties and the            *)
(* IS31FL373X_VERSION macro of src/IS31FL373x.h.                            *)
(*                                                                         *)
(* Texts are sequences of one-character strings.  Multi-character          *)
(* literals the code looks for ("version=", "#define",                     *)
(* "IS31FL373X_VERSION") are single elements; "x" is any other character.  *)
(***************************************************************************)
EXTENDS Integers, Sequences, FiniteSets, TLC

\* ---------------------------------------------------------------- bounds
MaxArgLen == 6      \* longest command-line argument drawn
MaxPropLen == 5     \* longest library.properties text drawn
MaxHdrParts == 6    \* most pieces a drawn header is made of
MaxPairs == 2       \* most members a drawn manifest object has
MaxRuns == 2        \* invocations of the tool in a row

\* --------------------------------------------------------------- generic
SeqsUpTo(S, n) == UNION {[1..k -> S] : k \in 0..n}

RECURSIVE Flatten(_)
Flatten(ss) == IF ss = <<>> THEN <<>> ELSE Head(ss) \o Flatten(Tail(ss))

\* characters str.strip() and \s treat as whitespace
Whitespace == {" ", "\n", "\r", "\f", "\t"}
Digits == {"0", "1"}

\* ------------------------------------------------------- text file access
\* Path.read_text(): text mode with universal newlines, "\r\n" and "\r"
\* both arrive as "\n".
RECURSIVE read_text(_)
read_text(b) ==
    IF b = <<>> THEN <<>>
    ELSE IF Head(b) = "\r"
         THEN IF Len(b) >= 2 /\ b[2] = "\n"
              THEN <<"\n">> \o read_text(Tail(Tail(b)))
              ELSE <<"\n">> \o read_text(Tail(b))
         ELSE <<Head(b)>> \o read_text(Tail(b))

\* Path.write_text() on a POSIX host: "\n" is written as os.linesep = "\n".
write_text(s) == s

\* ------------------------------------------------------------ str.strip()
RECURSIVE lstrip(_)
lstrip(s) == IF s # <<>> /\ Head(s) \in Whitespace THEN lstrip(Tail(s)) ELSE s

RECURSIVE rstrip(_)
rstrip(s) ==
    IF s # <<>> /\ s[Len(s)] \in Whitespace
    THEN rstrip(SubSeq(s, 1, Len(s) - 1)) ELSE s

strip(s) == rstrip(lstrip(s))

\* ------------------------------------------------------------- SEMVER_RE
\* ^\d+\.\d+\.\d+$ run as an automaton: states 0,2,4 expect the first digit
\* of a part, 1,3,5 are inside a part, 5 accepts, 6 is dead.
SemverStep(q, c) ==
    IF q = 6 THEN 6
    ELSE IF c \in Digits THEN (IF q \in {0, 2, 4} THEN q + 1 ELSE q)
    ELSE IF c = "." /\ q \in {1, 3} THEN q + 1
    ELSE 6

RECURSIVE SemverRun(_, _)
SemverRun(q, s) == IF s = <<>> THEN q ELSE SemverRun(SemverStep(q, Head(s)), Tail(s))

\* SEMVER_RE.match(s): in Python "$" also matches just before a final "\n".
SEMVER_RE_match(s) ==
    \/ SemverRun(0, s) = 5
    \/ /\ s # <<>>
       /\ s[Len(s)] = "\n"
       /\ SemverRun(0, SubSeq(s, 1, Len(s) - 1)) = 5

\* ------------------------------------------------ read_version_arg_or_file
\* A command-line argument: given = FALSE is argparse's None.
Arg(str) == [given |-> TRUE, str |-> str]
NoArg == [given |-> FALSE, str |-> <<>>]

\* A file of the project root: absent, or present with a text.
File(text) == [exists |-> TRUE, text |-> text]

\* "if cli_version:" is Python truthiness: None and "" are both false.
Truthy(cli) == cli.given /\ cli.str # <<>>

Resolved(v) == [ok |-> TRUE, version |-> v, err |-> "none"]
Fatal(e) == [ok |-> FALSE, version |-> <<>>, err |-> e]

Validate(candidate) ==
    IF SEMVER_RE_match(candidate) THEN Resolved(candidate) ELSE Fatal("Invalid")

ResolveMarkerFirst(version_file, cli_version) ==
    IF version_file.exists
    THEN Validate(strip(read_text(version_file.text)))
    ELSE IF Truthy(cli_version) THEN Validate(strip(cli_version.str))
    ELSE Fatal("NoVersion")

read_version_arg_or_file(version_file, cli_version) ==
    IF Truthy(cli_version)
    THEN Validate(strip(cli_version.str))
    ELSE IF ~version_file.exists
         THEN Fatal("NoVersion")
         ELSE Validate(strip(read_text(version_file.text)))

\* version + "\n", the text main() writes to VERSION
MarkerNoNewline(version) == version

MarkerText(version) == version \o <<"\n">>

\* ------------------------------------------------------ library.properties
\* the boundaries str.splitlines() splits on ("\r\n" counts as one)
LineBoundaries == {"\n", "\r", "\f"}

RECURSIVE SplitFrom(_, _)
SplitFrom(s, cur) ==
    IF s = <<>> THEN (IF cur = <<>> THEN <<>> ELSE <<cur>>)
    ELSE IF Head(s) = "\r" /\ Len(s) >= 2 /\ s[2] = "\n"
         THEN <<cur>> \o SplitFrom(Tail(Tail(s)), <<>>)
    ELSE IF Head(s) \in LineBoundaries
         THEN <<cur>> \o SplitFrom(Tail(s), <<>>)
    ELSE SplitFrom(Tail(s), Append(cur, Head(s)))

splitlines(s) == SplitFrom(s, <<>>)

\* "\n".join(lines)
RECURSIVE join(_)
join(lines) ==
    IF lines = <<>> THEN <<>>
    ELSE IF Len(lines) = 1 THEN lines[1]
    ELSE lines[1] \o <<"\n">> \o join(Tail(lines))

\* line.startswith("version=")
startswith_version(line) == line # <<>> /\ line[1] = "version="

VersionLine(version) == <<"version=">> \o version

\* indices of the lines the loop would match; the loop stops at the first
VersionLines(lines) == {i \in 1..Len(lines) : startswith_version(lines[i])}

FirstVersionLine(lines) ==
    CHOOSE i \in VersionLines(lines) : \A j \in VersionLines(lines) : i <= j

SetAllVersionLines(lines, version) ==
    IF VersionLines(lines) # {}
    THEN [i \in 1..Len(lines) |->
            IF startswith_version(lines[i]) THEN VersionLine(version) ELSE lines[i]]
    ELSE Append(lines, VersionLine(version))

AppendVersionLine(lines, version) == Append(lines, VersionLine(version))

\* the for/break loop and the "if not updated" append
SetVersionLine(lines, version) ==
    IF VersionLines(lines) # {}
    THEN [lines EXCEPT ![FirstVersionLine(lines)] = VersionLine(version)]
    ELSE Append(lines, VersionLine(version))

\* the text update_library_properties writes for a file holding bytes b
PropertiesText(b, version) ==
    write_text(join(SetVersionLine(splitlines(read_text(b)), version)) \o <<"\n">>)

\* ------------------------------------------------------ src/IS31FL373x.h
\* pattern = (#define\s+IS31FL373X_VERSION\s+)"[^"]*"
Quote == "\""

\* first index >= i of s that does not hold whitespace (Len(s)+1 if none)
RECURSIVE SkipSpace(_, _)
SkipSpace(s, i) ==
    IF i <= Len(s) /\ s[i] \in Whitespace THEN SkipSpace(s, i + 1) ELSE i

\* first index >= i of s that holds a quote (0 if none)
RECURSIVE NextQuote(_, _)
NextQuote(s, i) ==
    IF i > Len(s) THEN 0
    ELSE IF s[i] = Quote THEN i
    ELSE NextQuote(s, i + 1)

\* A match of the pattern that starts at index i: open is the index of the
\* opening quote (group 1 is s[i..open-1]) and close that of the closing
\* quote; close = 0 when the pattern does not match at i.
NoMatch == [open |-> 0, close |-> 0]

MatchAt(s, i) ==
    IF i > Len(s) \/ s[i] # "#define" THEN NoMatch
    ELSE LET n == SkipSpace(s, i + 1) IN
         IF n = i + 1 \/ n > Len(s) \/ s[n] # "IS31FL373X_VERSION" THEN NoMatch
         ELSE LET q == SkipSpace(s, n + 1) IN
              IF q = n + 1 \/ q > Len(s) \/ s[q] # Quote THEN NoMatch
              ELSE [open |-> q, close |-> NextQuote(s, q + 1)]

\* pattern.search(content)
pattern_search(content) ==
    \E i \in 1..Len(content) : MatchAt(content, i).close # 0

\* repl(m): group 1 followed by the quoted version
repl(s, i, m, version) == SubSeq(s, i, m.open - 1) \o <<Quote>> \o version \o <<Quote>>

\* pattern.sub(repl, content), scanning from index i: every leftmost
\* non-overlapping match is replaced, the scan resumes after the match.
RECURSIVE SubFrom(_, _, _)
SubFrom(s, i, version) ==
    IF i > Len(s) THEN <<>>
    ELSE LET m == MatchAt(s, i) IN
         IF m.close # 0
         THEN repl(s, i, m, version) \o SubFrom(s, m.close + 1, version)
         ELSE <<s[i]>> \o SubFrom(s, i + 1, version)

\* as pattern.sub(repl, content, count=1) would do
RECURSIVE SubFirstFrom(_, _, _)
SubFirstFrom(s, i, version) ==
    IF i > Len(s) THEN <<>>
    ELSE LET m == MatchAt(s, i) IN
         IF m.close # 0
         THEN repl(s, i, m, version) \o SubSeq(s, m.close + 1, Len(s))
         ELSE <<s[i]>> \o SubFirstFrom(s, i + 1, version)

pattern_sub_first(content, version) == SubFirstFrom(content, 1, version)

pattern_sub(content, version) == SubFrom(content, 1, version)

\* ------------------------------------------------------------ library.json
\* The manifest text by what json.loads makes of it: "invalid" is not JSON,
\* "array" is JSON that is not an object, "object" has the members `pairs`
\* in textual order (a key may repeat).  canon says the text is exactly
\* json.dumps(data, indent=2) + "\n".
Json(kind, pairs, canon) == [kind |-> kind, pairs |-> pairs, canon |-> canon]

Keys(d) == {d[i][1] : i \in 1..Len(d)}

IndexOf(d, k) == CHOOSE i \in 1..Len(d) : d[i][1] = k

\* d[k] = val on a Python dict: a known key keeps its place
DictSet(d, k, val) ==
    IF k \in Keys(d)
    THEN [d EXCEPT ![IndexOf(d, k)] = <<k, val>>]
    ELSE Append(d, <<k, val>>)

\* json.loads of an object: members are inserted in order, the last value
\* of a repeated key wins.
RECURSIVE LoadPairs(_, _)
LoadPairs(d, pairs) ==
    IF pairs = <<>> THEN d
    ELSE LoadPairs(DictSet(d, Head(pairs)[1], Head(pairs)[2]), Tail(pairs))

json_loads(j) == LoadPairs(<<>>, j.pairs)

\* json.dumps(data, indent=2) + "\n"
json_dumps(d) == Json("object", d, TRUE)

\* data["version"] = version; dump
ManifestText(j, version) == json_dumps(DictSet(json_loads(j), "version", version))

\* ------------------------------------------------------------- updaters
Absent == [exists |-> FALSE, text |-> <<>>]
AbsentJson == [exists |-> FALSE, text |-> Json("invalid", <<>>, FALSE)]

\* What one updater call does: ret is "true"/"false" when it returns and
\* "raised" when it raises (err names the exception), file is the file
\* afterwards.
Returned(b, file) == [ret |-> IF b THEN "true" ELSE "false", err |-> "none", file |-> file]
Raised(e, file) == [ret |-> "raised", err |-> e, file |-> file]

JsonAlwaysTrue(file, version) ==
    IF ~file.exists THEN Returned(TRUE, file)
    ELSE IF file.text.kind = "invalid" THEN Raised("JSONDecodeError", file)
    ELSE IF file.text.kind # "object" THEN Raised("TypeError", file)
    ELSE Returned(TRUE, File(ManifestText(file.text, version)))

update_library_json(file, version) ==
    IF ~file.exists THEN Returned(FALSE, file)
    ELSE IF file.text.kind = "invalid" THEN Raised("JSONDecodeError", file)
    ELSE IF file.text.kind # "object" THEN Raised("TypeError", file)
    ELSE Returned(TRUE, File(ManifestText(file.text, version)))

PropertiesSkipped(file, version) == Returned(file.exists, file)

update_library_properties(file, version) ==
    IF ~file.exists THEN Returned(FALSE, file)
    ELSE Returned(TRUE, File(PropertiesText(file.text, version)))

HeaderNoSearch(file, version) ==
    IF ~file.exists THEN Returned(FALSE, file)
    ELSE Returned(TRUE, File(write_text(pattern_sub(read_text(file.text), version))))

update_header_define(file, version) ==
    IF ~file.exists THEN Returned(FALSE, file)
    ELSE LET content == read_text(file.text) IN
         IF ~pattern_search(content) THEN Raised("SystemExit", file)
         ELSE Returned(TRUE, File(write_text(pattern_sub(content, version))))

\* ---------------------------------------------------------------- state
VARIABLES
    cli_version,    \* args.version of the invocation
    fs,             \* the four files of the project root
    start,          \* fs when the current invocation began
    pc,             \* position in main(): the statement to run next
    version,        \* main()'s local, <<>> until resolved
    updated_any,    \* main()'s local
    returned,       \* what each updater call of this invocation returned
    warned,         \* the "No target files were updated" line was printed
    exitcode,       \* -1 while running
    err,            \* the exception that ended the invocation
    runs            \* invocations started so far

vars == <<cli_version, fs, start, pc, version, updated_any, returned, warned,
          exitcode, err, runs>>

NotCalled == [json |-> "none", props |-> "none", header |-> "none"]

\* ------------------------------------------------------- initial contents
V111 == <<"1", ".", "1", ".", "1">>
V001 == <<"0", ".", "0", ".", "1">>
V100 == <<"1", ".", "0", ".", "0">>
Define == <<"#define", " ", "IS31FL373X_VERSION", " ">>

ArgChars == {"1", ".", " ", "v"}
AllArgs == {NoArg} \cup {Arg(s) : s \in SeqsUpTo(ArgChars, MaxArgLen)}
SomeArgs == {NoArg, Arg(<<>>), Arg(V111), Arg(<<" ">> \o V111), Arg(<<"v">> \o V111)}

SomeMarkers == {Absent, File(V001 \o <<"\n">>), File(V111), File(<<"v", "\n">>)}
AllMarkers == SomeMarkers \cup {File(<<>>), File(V001 \o <<"\r", "\n">>)}

JsonKeys == {"name", "version"}
JsonValues == {<<"x">>, V001}
JsonObjects ==
    {Json("object", ps, c) :
        ps \in SeqsUpTo(JsonKeys \X JsonValues, MaxPairs), c \in BOOLEAN}
\* a canonical text is a dump of a dict, so it repeats no key
AllManifests ==
    {AbsentJson, File(Json("invalid", <<>>, FALSE)), File(Json("array", <<>>, FALSE))}
    \cup {File(j) : j \in {o \in JsonObjects :
                             o.canon => Cardinality(Keys(o.pairs)) = Len(o.pairs)}}
GoodManifest == File(Json("object", <<<<"name", <<"x">>>>, <<"version", V001>>>>, FALSE))

PropChars == {"version=", "x", "\n", "\r", "\f"}
ExampleProperties ==
    <<"x", "\n", "version=">> \o V001 \o <<"\n", "x">>
AllProperties ==
    {Absent, File(ExampleProperties)}
    \cup {File(s) : s \in SeqsUpTo(PropChars, MaxPropLen)}
GoodProperties == File(<<"x", "\n", "version=", "0", "\n", "version=", "x">>)
SomeProperties == {Absent, GoodProperties, File(<<"x">>)}

HeaderPieces == {Define, <<Quote>>, <<"x">>, <<"#define", "IS31FL373X_VERSION", " ">>}
AllHeaders ==
    {Absent} \cup {File(Flatten(ps)) : ps \in SeqsUpTo(HeaderPieces, MaxHdrParts)}
GoodHeader == File(<<"x">> \o Define \o <<Quote>> \o V001 \o <<Quote, "\n">>)
SomeHeaders == {Absent, GoodHeader, File(<<"x", "\n">>)}

InitWith(args, markers, manifests, properties, headers) ==
    /\ cli_version \in args
    /\ \E m \in markers, j \in manifests, p \in properties, h \in headers :
           fs = [VERSION |-> m, json |-> j, props |-> p, header |-> h]
    /\ start = fs
    /\ pc = "resolve"
    /\ version = <<>>
    /\ updated_any = FALSE
    /\ returned = NotCalled
    /\ warned = FALSE
    /\ exitcode = -1
    /\ err = "none"
    /\ runs = 1

Init == InitWith(SomeArgs, SomeMarkers, AllManifests, SomeProperties, SomeHeaders)

InitResolve ==
    InitWith(AllArgs, AllMarkers, {AbsentJson, GoodManifest}, {Absent, GoodProperties},
             {Absent, GoodHeader})

InitProperties ==
    InitWith({Arg(V100)}, {File(V001 \o <<"\n">>)}, {AbsentJson, GoodManifest},
             AllProperties, SomeHeaders)

InitHeader ==
    InitWith({Arg(V111)}, {File(V001 \o <<"\n">>)}, {AbsentJson, GoodManifest},
             {Absent, GoodProperties}, AllHeaders)

\* --------------------------------------------------------------- main()
Abort(e) ==
    /\ pc' = "failed"
    /\ err' = e
    /\ exitcode' = 1

\* as if VERSION were opened for writing before the candidate is validated
ResolveTruncating ==
    /\ pc = "resolve"
    /\ LET r == read_version_arg_or_file(fs.VERSION, cli_version) IN
         IF r.ok
         THEN /\ version' = r.version
              /\ pc' = "marker"
              /\ UNCHANGED <<err, exitcode, fs>>
         ELSE /\ Abort(r.err)
              /\ fs' = [fs EXCEPT !.VERSION = File(<<>>)]
              /\ UNCHANGED version
    /\ UNCHANGED <<cli_version, start, updated_any, returned, warned, runs>>

\* version = read_version_arg_or_file(project_root, args.version)
Resolve ==
    /\ pc = "resolve"
    /\ LET r == read_version_arg_or_file(fs.VERSION, cli_version) IN
         IF r.ok
         THEN /\ version' = r.version
              /\ pc' = "marker"
              /\ UNCHANGED <<err, exitcode>>
         ELSE /\ Abort(r.err)
              /\ UNCHANGED version
    /\ UNCHANGED <<cli_version, fs, start, updated_any, returned, warned, runs>>

\* (project_root / "VERSION").write_text(version + "\n"); updated_any = False
WriteMarker ==
    /\ pc = "marker"
    /\ fs' = [fs EXCEPT !.VERSION = File(write_text(MarkerText(version)))]
    /\ updated_any' = FALSE
    /\ pc' = "json"
    /\ UNCHANGED <<cli_version, start, version, returned, warned, exitcode, err, runs>>

\* updated_any |= <updater>(path, version): r is what the call did
Call(name, r, next) ==
    /\ fs' = [fs EXCEPT ![name] = r.file]
    /\ returned' = [returned EXCEPT ![name] = r.ret]
    /\ IF r.ret = "raised"
       THEN /\ Abort(r.err)
            /\ UNCHANGED updated_any
       ELSE /\ updated_any' = (updated_any \/ r.ret = "true")
            /\ pc' = next
            /\ UNCHANGED <<err, exitcode>>
    /\ UNCHANGED <<cli_version, start, version, warned, runs>>

UpdateJson ==
    /\ pc = "json"
    /\ Call("json", update_library_json(fs.json, version), "props")

UpdateProperties ==
    /\ pc = "props"
    /\ Call("props", update_library_properties(fs.props, version), "header")

UpdateHeader ==
    /\ pc = "header"
    /\ Call("header", update_header_define(fs.header, version), "report")

\* the warning, the confirmation and "return 0"
Report ==
    /\ pc = "report"
    /\ warned' = ~updated_any
    /\ exitcode' = 0
    /\ pc' = "done"
    /\ UNCHANGED <<cli_version, fs, start, version, updated_any, returned, err, runs>>

\* the tool is invoked again with the same argument on the files as they are
Rerun ==
    /\ pc = "done"
    /\ runs < MaxRuns
    /\ runs' = runs + 1
    /\ start' = fs
    /\ pc' = "resolve"
    /\ version' = <<>>
    /\ updated_any' = FALSE
    /\ returned' = NotCalled
    /\ warned' = FALSE
    /\ exitcode' = -1
    /\ err' = "none"
    /\ UNCHANGED <<cli_version, fs>>

Next ==
    \/ Resolve
    \/ WriteMarker
    \/ UpdateJson
    \/ UpdateProperties
    \/ UpdateHeader
    \/ Report
    \/ Rerun

Spec == Init /\ [][Next]_vars
SpecResolve == InitResolve /\ [][Next]_vars
SpecProperties == InitProperties /\ [][Next]_vars
SpecHeader == InitHeader /\ [][Next]_vars
SpecAll == (Init \/ InitResolve \/ InitProperties \/ InitHeader) /\ [][Next]_vars

\* ------------------------------------------------------------ vocabulary
\* s has the shape digits.digits.digits
IsSemver(s) ==
    \E i, j \in 2..(Len(s) - 1) :
        /\ i + 1 < j
        /\ s[i] = "." /\ s[j] = "."
        /\ \A k \in (1..Len(s)) \ {i, j} : s[k] \in Digits

Running == pc \notin {"done", "failed"}
ResolutionFailed == pc = "failed" /\ returned = NotCalled /\ version = <<>>
ResolutionSucceeded == pc # "resolve" /\ ~ResolutionFailed
Targets == {"json", "props", "header"}

\* the lines of a properties file as Python reads them
LinesOf(file) == splitlines(read_text(file.text))

\* line i is the first line of ls that begins with "version="
IsFirstVersionLine(ls, i) ==
    /\ i \in 1..Len(ls)
    /\ startswith_version(ls[i])
    /\ \A j \in 1..(i - 1) : ~startswith_version(ls[j])

\* the macro definitions of a header text: <<o, c>> are the indices of the
\* quotes of a #define IS31FL373X_VERSION "..." found anywhere in s
Macros(s) ==
    {oc \in (1..Len(s)) \X (1..Len(s)) :
        /\ oc[1] < oc[2]
        /\ s[oc[1]] = Quote /\ s[oc[2]] = Quote
        /\ \A k \in (oc[1] + 1)..(oc[2] - 1) : s[k] # Quote
        /\ \E d \in 1..(oc[1] - 4) : \E n \in (d + 2)..(oc[1] - 2) :
              /\ s[d] = "#define" /\ s[n] = "IS31FL373X_VERSION"
              /\ \A k \in ((d + 1)..(oc[1] - 1)) \ {n} : s[k] \in Whitespace}

MacroValue(s, oc) == SubSeq(s, oc[1] + 1, oc[2] - 1)

ManifestCarries(file, v) ==
    /\ file.text.kind = "object"
    /\ \E i \in 1..Len(file.text.pairs) : file.text.pairs[i][1] = "version"
    /\ \A i \in 1..Len(file.text.pairs) :
          file.text.pairs[i][1] = "version" => file.text.pairs[i][2] = v

PropertiesCarry(file, v) ==
    \E i \in 1..Len(LinesOf(file)) :
        /\ IsFirstVersionLine(LinesOf(file), i)
        /\ LinesOf(file)[i] = <<"version=">> \o v

HeaderCarries(file, v) ==
    \A oc \in Macros(file.text) : MacroValue(file.text, oc) = v

\* ----------------------------------------------------------------- claims
\* C1: every argument whose trimmed text is not digits.digits.digits, the
\* empty string included, makes resolution fail fatally, whatever VERSION
\* holds.
C1_InvalidArgumentFails ==
    (cli_version.given /\ ~IsSemver(strip(cli_version.str)) /\ pc # "resolve")
        => ResolutionFailed

\* C2: a digits.digits.digits argument is returned exactly, whether or not
\* VERSION exists and whatever it holds.
C2_ValidArgumentReturned ==
    (cli_version.given /\ IsSemver(cli_version.str) /\ pc # "resolve")
        => (~ResolutionFailed /\ version = cli_version.str)

C2_Witness ==
    /\ pc = "marker"
    /\ cli_version.given /\ IsSemver(cli_version.str)
    /\ version = cli_version.str
    /\ fs.VERSION.exists
    /\ IsSemver(strip(fs.VERSION.text))
    /\ strip(fs.VERSION.text) # cli_version.str

\* C3: when resolution fails the run ends with a non-zero exit and all four
\* files are as they were before the run, absent ones still absent.
C3_FailedResolutionWritesNothing ==
    ResolutionFailed => (exitcode \notin {-1, 0} /\ fs = start)

C3_Witness ==
    /\ ResolutionFailed
    /\ exitcode = 1
    /\ ~cli_version.given
    /\ \A f \in Targets \cup {"VERSION"} : ~fs[f].exists

\* C4: when resolution succeeded with v, VERSION holds v and one newline at
\* the end of the run, whether the run ended normally or an updater aborted.
C4_MarkerHoldsVersion ==
    (~Running /\ ResolutionSucceeded)
        => (version # <<>> /\ fs.VERSION = File(version \o <<"\n">>))

C4_Witness ==
    /\ pc = "failed"
    /\ returned.header = "raised"
    /\ fs.VERSION = File(version \o <<"\n">>)
    /\ fs.VERSION # start.VERSION

\* C5: a header that exists without the macro makes update_header_define
\* fail fatally and stays as it was; an absent header is skipped with result
\* false and no error.
C5_HeaderWithoutMacroIsFatal ==
    returned.header # "none" =>
        /\ (start.header.exists /\ Macros(start.header.text) = {}) =>
              /\ returned.header = "raised"
              /\ pc = "failed"
              /\ exitcode \notin {-1, 0}
              /\ fs.header = start.header
        /\ ~start.header.exists =>
              /\ returned.header = "false"
              /\ pc # "failed"
              /\ err = "none"
              /\ ~fs.header.exists

C5_Witness ==
    /\ pc = "failed"
    /\ returned.header = "raised"
    /\ fs.header.exists
    /\ \E i \in 1..Len(fs.header.text) : fs.header.text[i] = "#define"
    /\ \E i \in 1..Len(fs.header.text) : fs.header.text[i] = Quote

\* C6: when the header update fails fatally in a run where manifest and
\* properties exist, both already carry the new version, and so does VERSION,
\* while the header is unchanged and the exit is non-zero.
C6_NoRollback ==
    (returned.header = "raised" /\ start.json.exists /\ start.props.exists) =>
        /\ pc = "failed"
        /\ exitcode \notin {-1, 0}
        /\ returned.json = "true" /\ returned.props = "true"
        /\ ManifestCarries(fs.json, version)
        /\ PropertiesCarry(fs.props, version)
        /\ fs.VERSION = File(version \o <<"\n">>)
        /\ fs.header = start.header

C6_Witness ==
    /\ returned.header = "raised"
    /\ start.json.exists /\ start.props.exists
    /\ ~ManifestCarries(start.json, version)
    /\ ~PropertiesCarry(start.props, version)
    /\ fs.json # start.json /\ fs.props # start.props

\* C7: a second run with the same argument after a successful run succeeds
\* and leaves every file exactly as the first run left it.
C7_SecondRunChangesNothing ==
    runs >= 2 => (pc # "failed" /\ fs = start)

C7_Witness ==
    /\ runs = 2
    /\ pc = "done"
    /\ \A f \in Targets : returned[f] = "true"
    /\ fs = start

C9_WarningIffAllAbsent ==
    /\ pc = "done" =>
          /\ warned <=> (\A f \in Targets : ~start[f].exists)
          /\ exitcode = 0
          /\ \A f \in Targets : ~start[f].exists => ~fs[f].exists
    /\ \A f \in Targets :
          returned[f] # "none" => (returned[f] = "false" <=> ~start[f].exists)

C9_Witness ==
    /\ pc = "done"
    /\ warned
    /\ exitcode = 0
    /\ cli_version.given
    /\ ~start.VERSION.exists
    /\ fs.VERSION.exists
    /\ \A f \in Targets : ~fs[f].exists

\* C10: after an exit with code 0 every file that exists agrees on the
\* resolved version: VERSION, the manifest's version key, the first version=
\* line, and every IS31FL373X_VERSION macro of the header.
C10_FilesAgreeAtExit0 ==
    (pc = "done" /\ exitcode = 0) =>
        /\ fs.VERSION = File(version \o <<"\n">>)
        /\ fs.json.exists => ManifestCarries(fs.json, version)
        /\ fs.props.exists => PropertiesCarry(fs.props, version)
        /\ fs.header.exists => HeaderCarries(fs.header, version)

C10_Witness ==
    /\ pc = "done"
    /\ runs = 1
    /\ Cardinality(Macros(start.header.text)) >= 2
    /\ Cardinality(Macros(fs.header.text)) >= 2
    /\ HeaderCarries(fs.header, version)

====
